---- MODULE Spec2Model ----
(***************************************************************************)
(* Model of Hepri/parental: the session Manager (internal/session), the    *)
(* expiry sweep of the service (runSessionMonitor), the expiry             *)
(* notification of the Telegram bot and the bot's reconnect loop.          *)
(*                                                                         *)
(* Time is counted in seconds.  The backend (WTS session enumeration,      *)
(* logoff, SetUserPassword, the Telegram transport) is the environment:    *)
(* every call into it succeeds or fails nondeterministically.              *)
(***************************************************************************)
EXTENDS Integers, Sequences, FiniteSets, TLC

VARIABLES
    childAccounts,      \* Manager.childAccounts: the configured usernames
    activeSessions,     \* Manager.activeSessions: username -> *ActiveSession
    password,           \* the operating-system secret of each account
    osSession,          \* the WTS session of each account, by connect state
    now,                \* time.Now(), in seconds since the service started
    nextTick,           \* instant of the next tick of the monitor's ticker
    monitorPc,          \* position of runSessionMonitor
    expiredSessions,    \* runSessionMonitor's local slice, still to be locked
    botNil,             \* tb.bot == nil
    isConnected,        \* tb.isConnected
    reconnectAttempts,  \* tb.reconnectAttempts
    botPc,              \* position of TelegramBot.Start
    cancelled,          \* s.ctx is done
    monitorLog,         \* the monitor's last log line about a LockSession call
    observed,           \* which of the history variables the specification keeps
    lastOp,             \* history: the last Manager call and what it returned
    issued,             \* history: the last Grant recorded for each account
    notifyCalls,        \* history: NotifySessionExpired calls since that Grant
    notified,           \* history: expiry notifications sent since that Grant
    userStates,         \* tb.userStates: id -> step of the conversation
    userData,           \* tb.userData: id -> selected_user
    reply,              \* what the handler of the last update sent to the chat
    handled,            \* history: the update handled last
    scheduledTime,      \* ShutdownManager.scheduledTime (-1: nil)
    shutdownCancelled,  \* ShutdownManager.cancelled
    attempts,           \* history: calls of connectAndRun made by Start
    failures,           \* history: connection cycles that ended in an error
    maxReconnectAttempts, \* tb.config.MaxReconnectAttempts (0: no maximum)
    servicePc           \* position of the control loop of Execute

regVars   == <<childAccounts, activeSessions, password, osSession>>
clockVars == <<now, nextTick>>
sweepVars == <<monitorPc, expiredSessions, monitorLog>>
botVars   == <<botNil, isConnected, reconnectAttempts, botPc>>
histVars  == <<observed, lastOp, issued, notifyCalls, notified>>
chatVars  == <<userStates, userData, reply, handled>>
shutdownVars == <<scheduledTime, shutdownCancelled>>
cycleVars == <<attempts, failures>>
configVars == <<maxReconnectAttempts>>
serviceVars == <<servicePc>>
vars == <<childAccounts, activeSessions, password, osSession, now, nextTick,
          monitorPc, expiredSessions, botNil, isConnected, reconnectAttempts,
          botPc, cancelled, monitorLog, observed, lastOp, issued, notifyCalls,
          notified, userStates, userData, reply, handled, scheduledTime,
          shutdownCancelled, attempts, failures, maxReconnectAttempts,
          servicePc>>

----------------------------------------------------------------------------
(* Bounds of the model *)

MaxTime == 92          \* the clock stops here
MaxSkew == 2            \* instants observed: at most this many seconds after a multiple of SweepInterval
MaxReconnect == 2       \* consecutive failed connection cycles that are followed
MaxCycles == 3          \* failed connection cycles that are counted
MaxServeTime == 30      \* updates are served up to this instant

(* Program constants *)

Minute == 60
SweepInterval == 30
PollDeadline == 30
MinDuration == 1
MaxDuration == 480

Usernames == {"kid1", "kid2", "kid3", "nobody"}
DurationsWide == {MinDuration, 5, 10, MaxDuration}    \* minutes a caller asks for in SpecRegistry

NoSession == [StartTime |-> -1, Duration |-> 0, IsActive |-> FALSE]

WTSStates == {"none", "WTSActive", "WTSConnected"}

\* variant: the struct literal without its IsActive field (false in Go)
ActiveSession_NoFlag(u, start, d) == [StartTime |-> start, Duration |-> d, IsActive |-> FALSE]

ActiveSession(u, start, d) ==
    [StartTime |-> start, Duration |-> d, IsActive |-> TRUE]

\* config.ChildAccount.Password of a configured account, and the secret
\* GrantAccess installs
ConfiguredPassword(u) == "configured"
TemporaryPassword == "123456"

\* lastOp: the call, its username, the minutes asked for (GrantAccess), the
\* error returned, and whether the table held an entry for the username
\* when the call was made
NoOp == [op |-> "none", user |-> "", d |-> 0, err |-> "nil", had |-> FALSE]

Record(op, u, d, err, had) ==
    IF "lastOp" \in observed
    THEN [op |-> op, user |-> u, d |-> d, err |-> err, had |-> had]
    ELSE lastOp

NoLog == [user |-> "", err |-> "nil"]

\* handled: the branch the update handled last took
NoUpdate == [route |-> "none"]


AuthorizedUserIDs == {1001}

\* the identities updates come from, the chats they come in (a private chat
\* has the id of its user; GroupChat is a chat with several members), and
\* the keys of userStates and userData
UserIDs == {1001, 2002}
GroupChat == 5000
Ids == UserIDs \cup {GroupChat}

\* Outcomes of the backend calls of one Manager call: session enumeration,
\* user-name query, logoff, SetUserPassword.  A call that fails ends the
\* path that the later calls are on, so their outcomes are left TRUE.
BackendOutcomes ==
    {o \in [enum : BOOLEAN, name : BOOLEAN, logoff : BOOLEAN, pw : BOOLEAN] :
        /\ ~o.enum => (o.name /\ o.logoff /\ o.pw)
        /\ ~o.name => (o.logoff /\ o.pw)}
LoginOutcomes == {"login_failed", "poll_enum_failed", "WTSActive", "WTSConnected", "timeout"}
SendOutcomes == {"sent", "failed", "critical"}

----------------------------------------------------------------------------
(* The session Manager *)

\* variant: the account lookup is missing
IsChildAccount_Any(u) == TRUE

\* the account lookup at the head of GrantAccess
IsChildAccount(u) == u \in childAccounts

\* for _, acc := range m.childAccounts { if acc.Username == username ... }
ConfiguredFor(u) == IF IsChildAccount(u) THEN ConfiguredPassword(u) ELSE ""

\* the loop over the enumerated sessions: a WTSActive session whose user
\* name could be read and equals u
FindActiveSession(u, nameOk) == osSession[u] = "WTSActive" /\ nameOk

\* what GrantAccess returns
GrantAccessErr(u, o, login) ==
    IF ~IsChildAccount(u) THEN "account_not_found"
    ELSE IF ~o.enum THEN "enumerate"
    ELSE IF ~FindActiveSession(u, o.name) /\ login = "login_failed" THEN "login"
    ELSE IF ~FindActiveSession(u, o.name) /\ login = "poll_enum_failed" THEN "enumerate"
    ELSE IF ~FindActiveSession(u, o.name) /\ login = "timeout" THEN "no_session_established"
    ELSE IF ~o.pw THEN "set_password"
    ELSE "nil"

\* GrantAccess reached the log-in branch and the poll saw a session appear
GrantLoggedIn(u, o, login) ==
    /\ IsChildAccount(u) /\ o.enum /\ ~FindActiveSession(u, o.name)
    /\ login \in {"WTSActive", "WTSConnected"}

\* GrantAccess polled for the whole deadline
GrantTimedOut(u, o, login) ==
    /\ IsChildAccount(u) /\ o.enum /\ ~FindActiveSession(u, o.name)
    /\ login = "timeout"

\* variant: a repeated grant extends the entry instead of replacing it
GrantAccessTable_Accumulate(u, d, err) ==
    IF err # "nil" THEN activeSessions
    ELSE IF activeSessions[u] = NoSession
    THEN [activeSessions EXCEPT ![u] = ActiveSession(u, now, d)]
    ELSE [activeSessions EXCEPT ![u].Duration = @ + d]

\* the table after GrantAccess
GrantAccessTable(u, d, err) ==
    IF err = "nil"
    THEN [activeSessions EXCEPT ![u] = ActiveSession(u, now, d)]
    ELSE activeSessions

\* The outcomes that decide a GrantAccess call: those of the calls it makes
GrantOutcomes(u) ==
    {ol \in BackendOutcomes \X LoginOutcomes :
        /\ ol[1].logoff
        /\ ~IsChildAccount(u) => (ol[1].enum /\ ol[1].name)
        /\ (~IsChildAccount(u) \/ ~ol[1].enum \/ FindActiveSession(u, ol[1].name))
                => ol[2] = "WTSActive"
        /\ (ol[1].enum /\ osSession[u] # "WTSActive") => ol[1].name
        /\ GrantAccessErr(u, ol[1], ol[2]) \notin {"nil", "set_password"} => ol[1].pw}

GrantAccess(u, d, o, login) ==
    LET err == GrantAccessErr(u, o, login) IN
    /\ GrantTimedOut(u, o, login) => now + PollDeadline <= MaxTime
    /\ activeSessions' = GrantAccessTable(u, d, err)
    /\ password' = IF err = "nil"
                   THEN [password EXCEPT ![u] = TemporaryPassword]
                   ELSE password
    /\ osSession' = IF GrantLoggedIn(u, o, login)
                    THEN [osSession EXCEPT ![u] = login]
                    ELSE osSession
    /\ now' = IF GrantTimedOut(u, o, login) THEN now + PollDeadline ELSE now
    /\ lastOp' = Record("GrantAccess", u, d \div Minute, err, activeSessions[u] # NoSession)
    /\ issued' = IF err = "nil" /\ "issued" \in observed
                 THEN [issued EXCEPT ![u] = ActiveSession(u, now, d)]
                 ELSE issued
    /\ notifyCalls' = IF err = "nil" THEN [notifyCalls EXCEPT ![u] = 0] ELSE notifyCalls
    /\ notified' = IF err = "nil" THEN [notified EXCEPT ![u] = 0] ELSE notified
    /\ UNCHANGED <<childAccounts, nextTick, observed>>

\* what LockSession returns
LockSessionErr(u, o) ==
    IF ~o.enum THEN "enumerate"
    ELSE IF ~FindActiveSession(u, o.name) THEN "session_not_found"
    ELSE IF ~o.logoff THEN "logoff"
    ELSE "nil"

\* variant: the entry is deleted only once the session was logged off
LockSessionTable_KeepOnError(u, o) ==
    IF LockSessionErr(u, o) = "nil"
    THEN [activeSessions EXCEPT ![u] = NoSession]
    ELSE activeSessions

\* variant: the flag is cleared, and the entry is deleted only once the
\* session was logged off
LockSessionTable_FlagOnly(u, o) ==
    IF LockSessionErr(u, o) = "nil" \/ activeSessions[u] = NoSession
    THEN [activeSessions EXCEPT ![u] = NoSession]
    ELSE [activeSessions EXCEPT ![u].IsActive = FALSE]

\* the table after LockSession: the entry is deleted before any backend call
LockSessionTable(u, o) == [activeSessions EXCEPT ![u] = NoSession]

\* the account's secret after LockSession: restored only on the path that
\* found the session and logged it off
LockSessionPassword(u, o) ==
    IF LockSessionErr(u, o) = "nil" /\ ConfiguredFor(u) # "" /\ o.pw
    THEN [password EXCEPT ![u] = ConfiguredFor(u)]
    ELSE password

\* the Manager's part of LockSession
LockSessionCore(u, o) ==
    /\ activeSessions' = LockSessionTable(u, o)
    /\ password' = LockSessionPassword(u, o)
    /\ osSession' = IF LockSessionErr(u, o) = "nil"
                    THEN [osSession EXCEPT ![u] = "none"]
                    ELSE osSession
    /\ lastOp' = Record("LockSession", u, 0, LockSessionErr(u, o),
                        activeSessions[u] # NoSession)
    /\ UNCHANGED childAccounts

\* LockAllSessions: the table is cleared first; then every WTSActive session
\* of a child account is logged off and the account's secret restored, also
\* when the logoff failed.  os[a] holds the backend outcomes for account a.
LockAllReached(a, enumOk, os) ==
    enumOk /\ IsChildAccount(a) /\ osSession[a] = "WTSActive" /\ os[a].name

LockAllSessionsErr(enumOk) == IF enumOk THEN "nil" ELSE "enumerate"

LockAllSessionsCore(enumOk, os) ==
    /\ activeSessions' = [a \in Usernames |-> NoSession]
    /\ osSession' = [a \in Usernames |->
            IF LockAllReached(a, enumOk, os) /\ os[a].logoff
            THEN "none" ELSE osSession[a]]
    /\ password' = [a \in Usernames |->
            IF LockAllReached(a, enumOk, os) /\ ConfiguredFor(a) # "" /\ os[a].pw
            THEN ConfiguredFor(a) ELSE password[a]]
    /\ lastOp' = Record("LockAllSessions", "", 0, LockAllSessionsErr(enumOk), FALSE)
    /\ UNCHANGED childAccounts

\* Cleanup clears the table and calls nothing else
CleanupCore ==
    /\ activeSessions' = [a \in Usernames |-> NoSession]
    /\ lastOp' = Record("Cleanup", "", 0, "nil", FALSE)
    /\ UNCHANGED <<childAccounts, password, osSession>>

InTable(a) == activeSessions[a] # NoSession

\* GetActiveSessions: the usernames of the entries whose IsActive is set
GetActiveSessions == {a \in Usernames : InTable(a) /\ activeSessions[a].IsActive}

\* variant: the comparison is strict
IsExpired_Strict(session, t) == t - session.StartTime > session.Duration

\* variant: the duration is read in the wrong unit
IsExpired_WrongUnit(session, t) == t - session.StartTime >= session.Duration * Minute

\* now.Sub(session.StartTime) >= session.Duration
IsExpired(session, t) == t - session.StartTime >= session.Duration

\* GetExpiredSessions: the usernames of the active entries that are expired
GetExpiredSessions ==
    {a \in Usernames : InTable(a) /\ activeSessions[a].IsActive
                        /\ IsExpired(activeSessions[a], now)}

----------------------------------------------------------------------------
(* The expiry notification of the bot *)

\* NotifySessionExpired(u): nothing is sent unless the bot is connected; a
\* critical send error marks the connection lost
NotifySends == ~botNil /\ isConnected

NotifySessionExpired(u, send) ==
    /\ notifyCalls' = [notifyCalls EXCEPT ![u] = @ + 1]
    /\ notified' = IF NotifySends /\ (\E id \in AuthorizedUserIDs : send[id] = "sent")
                   THEN [notified EXCEPT ![u] = @ + 1]
                   ELSE notified
    /\ isConnected' = IF NotifySends /\ (\E id \in AuthorizedUserIDs : send[id] = "critical")
                      THEN FALSE
                      ELSE isConnected

----------------------------------------------------------------------------
(* Calls of the Manager made on behalf of an operator *)

\* the usernames a caller passes: the configured ones and one that is not
Callers == childAccounts \cup {"nobody"}

\* The outcomes that decide a LockSession call
LockOutcomes(u) ==
    {o \in BackendOutcomes :
        /\ (o.enum /\ osSession[u] # "WTSActive") => (o.name /\ o.logoff /\ o.pw)
        /\ ~o.logoff => o.pw}

\* The outcomes that decide a LockAllSessions call, one for each account
AllOk == [enum |-> TRUE, name |-> TRUE, logoff |-> TRUE, pw |-> TRUE]

LockAllOutcomes(enumOk) ==
    {os \in [childAccounts -> {o \in BackendOutcomes : o.enum}] :
        \A a \in childAccounts :
            (~enumOk \/ osSession[a] # "WTSActive") => os[a] = AllOk}

CallGrantAccess(D) ==
    /\ ~cancelled
    /\ \E u \in Callers, d \in D :
       \E ol \in GrantOutcomes(u) : GrantAccess(u, d * Minute, ol[1], ol[2])
    /\ UNCHANGED <<sweepVars, botVars, cancelled>>
    /\ UNCHANGED <<chatVars, shutdownVars, cycleVars, configVars, serviceVars>>

CallLockSession ==
    /\ ~cancelled
    /\ \E u \in Callers : \E o \in LockOutcomes(u) : LockSessionCore(u, o)
    /\ UNCHANGED <<clockVars, sweepVars, botVars, cancelled, observed, issued,
                   notifyCalls, notified>>
    /\ UNCHANGED <<chatVars, shutdownVars, cycleVars, configVars, serviceVars>>

CallLockAllSessions ==
    /\ ~cancelled
    /\ \E enumOk \in BOOLEAN : \E os \in LockAllOutcomes(enumOk) :
            LockAllSessionsCore(enumOk, os)
    /\ UNCHANGED <<clockVars, sweepVars, botVars, cancelled, observed, issued,
                   notifyCalls, notified>>
    /\ UNCHANGED <<chatVars, shutdownVars, cycleVars, configVars, serviceVars>>

----------------------------------------------------------------------------
(* runSessionMonitor *)

\* the orders in which a range over the map can yield the set S
Orderings(S) ==
    {q \in [1..Cardinality(S) -> S] : \A i, j \in 1..Cardinality(S) : q[i] = q[j] => i = j}

\* case <-ticker.C: read the expired sessions
SweepTick ==
    /\ monitorPc = "wait"
    /\ now >= nextTick
    /\ \E q \in Orderings(GetExpiredSessions) :
            /\ expiredSessions' = q
            /\ monitorPc' = IF q = <<>> THEN "wait" ELSE "locking"
    /\ nextTick' = nextTick + SweepInterval
    /\ UNCHANGED <<regVars, now, monitorLog, botVars, cancelled, histVars>>
    /\ UNCHANGED <<chatVars, shutdownVars, cycleVars, configVars, serviceVars>>

\* variant: the loop over expiredSessions breaks at the first LockSession
\* that fails
SweepLock_BreaksOnError ==
    /\ monitorPc = "locking"
    /\ LET u == Head(expiredSessions) IN
       \E o \in LockOutcomes(u), send \in [AuthorizedUserIDs -> SendOutcomes] :
            /\ LockSessionCore(u, o)
            /\ IF LockSessionErr(u, o) = "nil"
               THEN NotifySessionExpired(u, send)
               ELSE UNCHANGED <<notifyCalls, notified, isConnected>>
            /\ monitorLog' = [user |-> u, err |-> LockSessionErr(u, o)]
            /\ expiredSessions' = IF LockSessionErr(u, o) = "nil"
                                  THEN Tail(expiredSessions) ELSE <<>>
    /\ monitorPc' = IF expiredSessions' = <<>> THEN "wait" ELSE "locking"
    /\ UNCHANGED <<clockVars, botNil, reconnectAttempts, botPc, cancelled, observed,
                   issued>>
    /\ UNCHANGED <<chatVars, shutdownVars, cycleVars, configVars, serviceVars>>

\* variant: the monitor returns when the notification could not be sent
SweepLock_StopsWhenSilent ==
    /\ monitorPc = "locking"
    /\ LET u == Head(expiredSessions) IN
       \E o \in LockOutcomes(u), send \in [AuthorizedUserIDs -> SendOutcomes] :
            /\ LockSessionCore(u, o)
            /\ IF LockSessionErr(u, o) = "nil"
               THEN NotifySessionExpired(u, send)
               ELSE UNCHANGED <<notifyCalls, notified, isConnected>>
            /\ monitorLog' = [user |-> u, err |-> LockSessionErr(u, o)]
            /\ monitorPc' = IF LockSessionErr(u, o) = "nil" /\ notified' = notified
                            THEN "done"
                            ELSE IF Tail(expiredSessions) = <<>> THEN "wait"
                            ELSE "locking"
    /\ expiredSessions' = Tail(expiredSessions)
    /\ UNCHANGED <<clockVars, botNil, reconnectAttempts, botPc, cancelled, observed,
                   issued>>
    /\ UNCHANGED <<chatVars, shutdownVars, cycleVars, configVars, serviceVars>>

\* one iteration of the loop over expiredSessions
SweepLock ==
    /\ monitorPc = "locking"
    /\ LET u == Head(expiredSessions) IN
       \E o \in LockOutcomes(u), send \in [AuthorizedUserIDs -> SendOutcomes] :
            /\ LockSessionCore(u, o)
            /\ IF LockSessionErr(u, o) = "nil"
               THEN NotifySessionExpired(u, send)
               ELSE UNCHANGED <<notifyCalls, notified, isConnected>>
            /\ monitorLog' = [user |-> u, err |-> LockSessionErr(u, o)]
    /\ expiredSessions' = Tail(expiredSessions)
    /\ monitorPc' = IF Tail(expiredSessions) = <<>> THEN "wait" ELSE "locking"
    /\ UNCHANGED <<clockVars, botNil, reconnectAttempts, botPc, cancelled, observed,
                   issued>>
    /\ UNCHANGED <<chatVars, shutdownVars, cycleVars, configVars, serviceVars>>

\* case <-s.ctx.Done()
MonitorStop ==
    /\ monitorPc = "wait"
    /\ cancelled
    /\ monitorPc' = "done"
    /\ UNCHANGED <<regVars, clockVars, expiredSessions, monitorLog, botVars,
                   cancelled, histVars>>
    /\ UNCHANGED <<chatVars, shutdownVars, cycleVars, configVars, serviceVars>>

----------------------------------------------------------------------------
(* TelegramBot.Start *)

\* what Start does when connectAndRun returned an error
\* shouldReconnect()
ShouldReconnect ==
    IF maxReconnectAttempts = 0 THEN TRUE
    ELSE reconnectAttempts < maxReconnectAttempts

\* variant: Start gives up once shouldReconnect() is false
StartOnError_GivesUp ==
    /\ reconnectAttempts < MaxReconnect
    /\ "cycles" \in observed => failures < MaxCycles
    /\ isConnected' = FALSE
    /\ reconnectAttempts' = reconnectAttempts + 1
    /\ botPc' = IF ShouldReconnect THEN "backoff" ELSE "returned"
    /\ failures' = IF "cycles" \in observed THEN failures + 1 ELSE failures

StartOnError ==
    /\ reconnectAttempts < MaxReconnect
    /\ "cycles" \in observed => failures < MaxCycles
    /\ isConnected' = FALSE
    /\ reconnectAttempts' = reconnectAttempts + 1
    /\ botPc' = "backoff"      \* also when shouldReconnect() is false
    /\ failures' = IF "cycles" \in observed THEN failures + 1 ELSE failures

\* variant: a connection made again starts with empty conversation maps
ConnectAndRun_FreshMaps ==
    /\ botPc = "loop"
    /\ ~cancelled
    /\ \E newOk \in BOOLEAN, getMeOk \in BOOLEAN :
        LET needNew == botNil \/ reconnectAttempts > 0 IN
        /\ botNil' = IF needNew /\ newOk THEN FALSE ELSE botNil
        /\ userStates' = IF needNew /\ newOk THEN [i \in Ids |-> "none"] ELSE userStates
        /\ userData' = IF needNew /\ newOk THEN [i \in Ids |-> "none"] ELSE userData
        /\ IF (needNew /\ ~newOk) \/ ~getMeOk
           THEN StartOnError
           ELSE /\ isConnected' = TRUE
                /\ reconnectAttempts' = 0
                /\ botPc' = "serving"
                /\ failures' = failures
    /\ attempts' = IF "cycles" \in observed THEN attempts + 1 ELSE attempts
    /\ UNCHANGED <<regVars, clockVars, sweepVars, cancelled, histVars>>
    /\ UNCHANGED <<reply, handled, shutdownVars, configVars, serviceVars>>

\* variant: the loop of Start does not look at ctx.Done()
ConnectAndRun_IgnoresCancel ==
    /\ botPc = "loop"
    /\ \E newOk \in BOOLEAN, getMeOk \in BOOLEAN :
        LET needNew == botNil \/ reconnectAttempts > 0 IN
        /\ botNil' = IF needNew /\ newOk THEN FALSE ELSE botNil
        /\ IF (needNew /\ ~newOk) \/ ~getMeOk
           THEN StartOnError
           ELSE /\ isConnected' = TRUE
                /\ reconnectAttempts' = 0
                /\ botPc' = "serving"
                /\ failures' = failures
    /\ attempts' = IF "cycles" \in observed THEN attempts + 1 ELSE attempts
    /\ UNCHANGED <<regVars, clockVars, sweepVars, cancelled, histVars>>
    /\ UNCHANGED <<chatVars, shutdownVars, configVars, serviceVars>>

\* variant: a handshake that succeeded leaves reconnectAttempts as it was
ConnectAndRun_KeepsCount ==
    /\ botPc = "loop"
    /\ ~cancelled
    /\ \E newOk \in BOOLEAN, getMeOk \in BOOLEAN :
        LET needNew == botNil \/ reconnectAttempts > 0 IN
        /\ botNil' = IF needNew /\ newOk THEN FALSE ELSE botNil
        /\ IF (needNew /\ ~newOk) \/ ~getMeOk
           THEN StartOnError
           ELSE /\ isConnected' = TRUE
                /\ reconnectAttempts' = reconnectAttempts
                /\ botPc' = "serving"
                /\ failures' = failures
    /\ attempts' = IF "cycles" \in observed THEN attempts + 1 ELSE attempts
    /\ UNCHANGED <<regVars, clockVars, sweepVars, cancelled, histVars>>
    /\ UNCHANGED <<chatVars, shutdownVars, configVars, serviceVars>>

\* connectAndRun up to the call of runMessageLoop
ConnectAndRun ==
    /\ botPc = "loop"
    /\ ~cancelled
    /\ \E newOk \in BOOLEAN, getMeOk \in BOOLEAN :
        LET needNew == botNil \/ reconnectAttempts > 0 IN
        /\ botNil' = IF needNew /\ newOk THEN FALSE ELSE botNil
        /\ IF (needNew /\ ~newOk) \/ ~getMeOk
           THEN StartOnError
           ELSE /\ isConnected' = TRUE
                /\ reconnectAttempts' = 0
                /\ botPc' = "serving"
                /\ failures' = failures
    /\ attempts' = IF "cycles" \in observed THEN attempts + 1 ELSE attempts
    /\ UNCHANGED <<regVars, clockVars, sweepVars, cancelled, histVars>>
    /\ UNCHANGED <<chatVars, shutdownVars, configVars, serviceVars>>

\* Start, default branch of its select: the context is not done, and
\* connectAndRun is called
HandshakeBegins ==
    /\ botPc = "loop"
    /\ ~cancelled
    /\ botPc' = "handshake"
    /\ UNCHANGED <<regVars, clockVars, sweepVars, botNil, isConnected,
                   reconnectAttempts, cancelled, histVars>>
    /\ UNCHANGED <<chatVars, shutdownVars, cycleVars, configVars, serviceVars>>

\* connectAndRun, from its call up to the call of runMessageLoop: NewBotAPI
\* and GetMe answer, or the HTTP client gives up, whatever the context is
HandshakeEnds ==
    /\ botPc = "handshake"
    /\ \E newOk \in BOOLEAN, getMeOk \in BOOLEAN :
        LET needNew == botNil \/ reconnectAttempts > 0 IN
        /\ botNil' = IF needNew /\ newOk THEN FALSE ELSE botNil
        /\ IF (needNew /\ ~newOk) \/ ~getMeOk
           THEN StartOnError
           ELSE /\ isConnected' = TRUE
                /\ reconnectAttempts' = 0
                /\ botPc' = "serving"
                /\ failures' = failures
    /\ attempts' = IF "cycles" \in observed THEN attempts + 1 ELSE attempts
    /\ UNCHANGED <<regVars, clockVars, sweepVars, cancelled, histVars>>
    /\ UNCHANGED <<chatVars, shutdownVars, configVars, serviceVars>>

\* variant: runBot cancels the context of the service when the loop fails
ConnectionLost_Cancels ==
    /\ botPc = "serving"
    /\ StartOnError
    /\ cancelled' = TRUE
    /\ UNCHANGED <<regVars, clockVars, sweepVars, botNil, histVars>>
    /\ UNCHANGED <<chatVars, shutdownVars, attempts, configVars, serviceVars>>

\* runMessageLoop: the updates channel was closed, or a handler returned a
\* critical error
ConnectionLost ==
    /\ botPc = "serving"
    /\ StartOnError
    /\ UNCHANGED <<regVars, clockVars, sweepVars, botNil, cancelled, histVars>>
    /\ UNCHANGED <<chatVars, shutdownVars, attempts, configVars, serviceVars>>

\* variant: after the wait the loop goes on serving without a handshake
BackoffElapsed_SkipsHandshake ==
    /\ botPc = "backoff"
    /\ botPc' = "serving"
    /\ UNCHANGED <<regVars, clockVars, sweepVars, botNil, isConnected,
                   reconnectAttempts, cancelled, histVars>>
    /\ UNCHANGED <<chatVars, shutdownVars, cycleVars, configVars, serviceVars>>

\* case <-time.After(ReconnectInterval)
BackoffElapsed ==
    /\ botPc = "backoff"
    /\ botPc' = "loop"
    /\ UNCHANGED <<regVars, clockVars, sweepVars, botNil, isConnected,
                   reconnectAttempts, cancelled, histVars>>
    /\ UNCHANGED <<chatVars, shutdownVars, cycleVars, configVars, serviceVars>>

\* variant: runMessageLoop does not select on ctx.Done()
StartReturns_NotWhileServing ==
    /\ cancelled
    /\ botPc \in {"loop", "backoff"}
    /\ botPc' = "returned"
    /\ UNCHANGED <<regVars, clockVars, sweepVars, botNil, isConnected,
                   reconnectAttempts, cancelled, histVars>>
    /\ UNCHANGED <<chatVars, shutdownVars, cycleVars, configVars, serviceVars>>

\* case <-ctx.Done(), in Start, in runMessageLoop or during the wait
StartReturns ==
    /\ cancelled
    /\ botPc \in {"loop", "serving", "backoff"}
    /\ botPc' = "returned"
    /\ UNCHANGED <<regVars, clockVars, sweepVars, botNil, isConnected,
                   reconnectAttempts, cancelled, histVars>>
    /\ UNCHANGED <<chatVars, shutdownVars, cycleVars, configVars, serviceVars>>

----------------------------------------------------------------------------
(* The ShutdownManager *)

\* what ScheduleShutdown returns; osOk: InitiateSystemShutdownEx succeeded
ScheduleShutdownErr(mins, osOk) ==
    IF mins < 0 THEN "negative_delay"
    ELSE IF ~osOk THEN "initiate_failed"
    ELSE "nil"

\* variant: a schedule that is pending is kept and the new one dropped
ScheduleShutdown_KeepPending(mins, osOk) ==
    LET err == ScheduleShutdownErr(mins, osOk)
        keep == scheduledTime # -1 /\ ~shutdownCancelled IN
    /\ scheduledTime' = IF err = "nil" /\ ~keep THEN now + mins * Minute ELSE scheduledTime
    /\ shutdownCancelled' = IF err = "nil" THEN FALSE ELSE shutdownCancelled

\* variant: the schedule is recorded before InitiateSystemShutdownEx is
\* called
ScheduleShutdown_RecordsFirst(mins, osOk) ==
    /\ scheduledTime' = IF mins >= 0 THEN now + mins * Minute ELSE scheduledTime
    /\ shutdownCancelled' = IF mins >= 0 THEN FALSE ELSE shutdownCancelled

ScheduleShutdown(mins, osOk) ==
    LET err == ScheduleShutdownErr(mins, osOk) IN
    /\ scheduledTime' = IF err = "nil" THEN now + mins * Minute ELSE scheduledTime
    /\ shutdownCancelled' = IF err = "nil" THEN FALSE ELSE shutdownCancelled

\* ShutdownNow is ScheduleShutdown(0)
ShutdownNow(osOk) == ScheduleShutdown(0, osOk)

\* what CancelShutdown returns; osOk: its call of InitiateSystemShutdownEx,
\* with no message and no delay, succeeded
CancelShutdownErr(osOk) == IF osOk THEN "nil" ELSE "abort_failed"

\* variant: the flag is set and the scheduled instant is kept
CancelShutdown_KeepsTime(osOk) ==
    /\ scheduledTime' = scheduledTime
    /\ shutdownCancelled' = IF osOk THEN TRUE ELSE shutdownCancelled

CancelShutdown(osOk) ==
    /\ scheduledTime' = IF osOk THEN -1 ELSE scheduledTime
    /\ shutdownCancelled' = IF osOk THEN TRUE ELSE shutdownCancelled

IsShutdownScheduled == scheduledTime # -1 /\ ~shutdownCancelled

\* Calls of the ShutdownManager made directly; the delays asked for, in
\* minutes
Delays == {-1, 0, 1, 2}

ShutdownFrame ==
    UNCHANGED <<regVars, clockVars, sweepVars, botVars, cancelled, observed,
                issued, notifyCalls, notified, chatVars, cycleVars, configVars, serviceVars>>

CallScheduleShutdown ==
    /\ \E mins \in Delays, osOk \in BOOLEAN :
        /\ mins < 0 => osOk
        /\ ScheduleShutdown(mins, osOk)
        /\ lastOp' = Record("ScheduleShutdown", "", mins,
                            ScheduleShutdownErr(mins, osOk), IsShutdownScheduled)
    /\ ShutdownFrame

CallShutdownNow ==
    /\ \E osOk \in BOOLEAN :
        /\ ShutdownNow(osOk)
        /\ lastOp' = Record("ShutdownNow", "", 0,
                            ScheduleShutdownErr(0, osOk), IsShutdownScheduled)
    /\ ShutdownFrame

CallCancelShutdown ==
    /\ \E osOk \in BOOLEAN :
        /\ CancelShutdown(osOk)
        /\ lastOp' = Record("CancelShutdown", "", 0,
                            CancelShutdownErr(osOk), IsShutdownScheduled)
    /\ ShutdownFrame

----------------------------------------------------------------------------
(* The conversation dispatcher of the bot *)

\* Texts are sequences of characters.
DigitValue ==
    ("0" :> 0) @@ ("1" :> 1) @@ ("2" :> 2) @@ ("3" :> 3) @@ ("4" :> 4) @@
    ("5" :> 5) @@ ("6" :> 6) @@ ("7" :> 7) @@ ("8" :> 8) @@ ("9" :> 9)

RECURSIVE Magnitude(_)
Magnitude(s) ==
    IF s = <<>> THEN 0
    ELSE Magnitude(SubSeq(s, 1, Len(s) - 1)) * 10 + DigitValue[s[Len(s)]]

\* strconv.Atoi: an optional sign and then one digit or more; anything else
\* is a syntax error and gives 0
Atoi(s) ==
    LET signed == s # <<>> /\ s[1] \in {"+", "-"}
        body == IF signed THEN Tail(s) ELSE s
        ok == body # <<>> /\ \A i \in 1..Len(body) : body[i] \in DOMAIN DigitValue
    IN  [ok |-> ok,
         val |-> IF ~ok THEN 0
                 ELSE IF s[1] = "-" THEN 0 - Magnitude(body)
                 ELSE Magnitude(body)]

SlashStart == <<"/", "s", "t", "a", "r", "t">>
MenuWord == <<"m", "e", "n", "u">>
CustomWord == <<"c", "u", "s", "t", "o", "m">>
NowWord == <<"n", "o", "w">>
Kid1Word == <<"k", "i", "d", "1">>
NobodyWord == <<"n", "o", "b", "o", "d", "y">>
AllWord == <<"a", "l", "l">>

\* the username a payload suffix spells
UsernameOf(s) ==
    IF s = Kid1Word THEN "kid1"
    ELSE IF s = NobodyWord THEN "nobody"
    ELSE ""

\* the texts of the messages that arrive
Texts ==
    {SlashStart, <<>>, <<"a", "b", "c">>, <<"0">>, <<"-", "5">>,
     <<"4", "8", "0">>, <<"4", "8", "1">>}

\* the payloads of the button presses that arrive: a prefix and the rest
CallbackData ==
    {[p |-> "grant_", r |-> s] : s \in {MenuWord, Kid1Word, <<>>}}
    \cup {[p |-> "duration_", r |-> s] :
                s \in {CustomWord, <<"1", "5">>, <<"a", "b", "c">>}}
    \cup {[p |-> "lock_", r |-> s] : s \in {MenuWord, Kid1Word}}
    \cup {[p |-> "shutdown_", r |-> s] :
                s \in {NowWord, MenuWord, <<"-", "1">>, <<"x">>}}
    \cup {[p |-> "cancel_shutdown", r |-> <<>>],
          [p |-> "main_menu", r |-> <<>>],
          [p |-> "noop", r |-> <<>>]}

ChatsOf(f) == {f, GroupChat}

\* the updates: a message or a button press, from a user, in that user's
\* private chat or in the group chat
Updates ==
    UNION {
        {[kind |-> "message", from |-> f, chat |-> c, text |-> t, p |-> "", r |-> <<>>] :
            c \in ChatsOf(f), t \in Texts}
        \cup {[kind |-> "callback", from |-> f, chat |-> c, text |-> <<>>,
               p |-> d.p, r |-> d.r] :
            c \in ChatsOf(f), d \in CallbackData}
        : f \in UserIDs}

\* the updates of the grant flow: the messages, and the button presses that
\* open the flow, select an account, choose a duration or leave
GrantFlowUpdates ==
    {up \in Updates :
        up.kind = "message" \/ up.p \in {"grant_", "duration_", "main_menu", "noop"}}

\* every update of the user that is not authorized, and the button presses
\* of the authorized one that select an account or reach the Manager or the
\* ShutdownManager
GuardedUpdates ==
    {up \in Updates :
        \/ up.from \notin AuthorizedUserIDs
        \/ /\ up.kind = "callback"
           /\ \/ up.p = "grant_" /\ up.r = Kid1Word
              \/ up.p = "duration_" /\ up.r = <<"1", "5">>
              \/ up.p \in {"lock_", "shutdown_", "cancel_shutdown"}}

\* variant: the check of the allow-list is missing
IsAuthorized_Any(userID) == TRUE

\* isAuthorized
IsAuthorized(userID) == \E authorizedID \in AuthorizedUserIDs : userID = authorizedID

\* variant: the upper limit of the custom duration is not checked
ValidCustomDuration_NoUpperLimit(text) ==
    /\ Atoi(text).ok
    /\ Atoi(text).val >= MinDuration

\* handleStateInput: the custom duration is an integer from MinDuration to
\* MaxDuration
ValidCustomDuration(text) ==
    /\ Atoi(text).ok
    /\ Atoi(text).val >= MinDuration
    /\ Atoi(text).val <= MaxDuration

\* The handler an update is dispatched to and the branch it takes there:
\* handleUpdate, handleMessage, handleStateInput, handleCallbackQuery and
\* the first branch of the handler chosen
Route(up) ==
    IF ~IsAuthorized(up.from) THEN "denied"
    ELSE IF up.kind = "message" THEN
        IF up.text = SlashStart THEN "main_menu"
        ELSE IF userStates[up.from] = "none" THEN "unknown_command"
        ELSE IF userStates[up.from] # "custom_duration" THEN "no_input_expected"
        ELSE IF ~ValidCustomDuration(up.text) THEN "invalid_duration"
        ELSE "custom_grant"
    ELSE IF up.p = "grant_" THEN
        IF up.r = MenuWord THEN "grant_menu" ELSE "select"
    ELSE IF up.p = "duration_" THEN
        IF up.r = CustomWord THEN "custom_prompt"
        ELSE IF ~Atoi(up.r).ok THEN "bad_payload"
        ELSE "quick_grant"
    ELSE IF up.p = "lock_" THEN
        IF up.r = MenuWord THEN "lock_menu" ELSE "lock"
    ELSE IF up.p = "shutdown_" THEN
        IF up.r = NowWord THEN "shutdown_now"
        ELSE IF up.r = MenuWord THEN "shutdown_menu"
        ELSE IF ~Atoi(up.r).ok THEN "bad_payload"
        ELSE "schedule"
    ELSE IF up.p = "resetpw_" THEN
        \* the case data == "resetpw_menu" stands after the case of the prefix
        \* "resetpw_" and is never reached
        IF up.r = AllWord THEN "resetpw_all"
        ELSE IF ConfiguredFor(UsernameOf(up.r)) = "" THEN "resetpw_fallback"
        ELSE "resetpw"
    ELSE IF up.p = "cancel_shutdown" THEN "cancel_shutdown"
    ELSE IF up.p = "main_menu" THEN "main_menu"
    ELSE "default"

\* the update reaches handleResetAllPasswords, or SetUserPassword for one
\* account in handleResetPassword
ResetsPasswords(up) == Route(up) \in {"resetpw_all", "resetpw_fallback", "resetpw"}

\* SetUserPassword succeeds or fails
ResetOutcomes == {[AllOk EXCEPT !.pw = b] : b \in BOOLEAN}

\* the secrets after handleResetPassword and handleResetAllPasswords
PasswordsAfterReset(up, x) ==
    IF ~x.o.pw THEN password
    ELSE IF Route(up) = "resetpw"
    THEN [password EXCEPT ![UsernameOf(up.r)] = ConfiguredFor(UsernameOf(up.r))]
    ELSE [a \in Usernames |->
            IF ConfiguredFor(a) # "" THEN ConfiguredFor(a) ELSE password[a]]

\* variant: a chat without a selection is taken to have selected kid1
Selected_Default(up) ==
    IF userData[up.chat] \in {"none", ""} THEN "kid1" ELSE userData[up.chat]

\* userData[chatID]["selected_user"]; "none": the chat has no entry
Selected(up) == userData[up.chat]

\* the update reaches grantAccess
ReachesGrant(up) == Route(up) \in {"quick_grant", "custom_grant"}

\* grantAccess calls Manager.GrantAccess: the chat has an entry and its
\* selected_user is not empty
CallsGrantAccess(up) == ReachesGrant(up) /\ Selected(up) \notin {"none", ""}

\* durationMinutes of grantAccess
DurationMinutes(up) ==
    IF Route(up) = "quick_grant" THEN Atoi(up.r).val ELSE Atoi(up.text).val

\* the update reaches Manager.LockSession
CallsLockSession(up) == Route(up) = "lock"

\* the minutes handed to the ShutdownManager
ShutdownMinutes(up) == IF Route(up) = "shutdown_now" THEN 0 ELSE Atoi(up.r).val

\* the routes whose handler returns the error of its last Send
ReturnsSendErr(up, x) ==
    \/ Route(up) \in {"main_menu", "grant_menu", "select", "custom_prompt",
                      "lock_menu", "shutdown_menu", "shutdown_now", "schedule",
                      "cancel_shutdown", "resetpw_all", "resetpw_fallback"}
    \/ Route(up) = "resetpw" /\ x.o.pw
    \/ CallsGrantAccess(up) /\ GrantAccessErr(Selected(up), x.o, x.login) = "nil"
    \/ CallsLockSession(up) /\ LockSessionErr(UsernameOf(up.r), x.o) = "nil"

\* The outcomes that decide how an update is handled: those of the backend
\* calls of the Manager and of the ShutdownManager, that of the Send whose
\* error the handler returns, and whether the error text of a failed log-in
\* is one isCriticalError takes for a connection error
UpdateOutcomes(up) ==
    LET backend == IF CallsGrantAccess(up) THEN GrantOutcomes(Selected(up))
                   ELSE IF CallsLockSession(up)
                   THEN LockOutcomes(UsernameOf(up.r)) \X {"WTSActive"}
                   ELSE IF ResetsPasswords(up)
                   THEN ResetOutcomes \X {"WTSActive"}
                   ELSE {<<AllOk, "WTSActive">>}
        os == IF \/ Route(up) \in {"shutdown_now", "cancel_shutdown"}
                 \/ Route(up) = "schedule" /\ ShutdownMinutes(up) >= 0
              THEN BOOLEAN ELSE {TRUE}
        all == {[o |-> ol[1], login |-> ol[2], osOk |-> k, send |-> s, crit |-> c] :
                    ol \in backend, k \in os, s \in SendOutcomes, c \in BOOLEAN}
    IN  {x \in all :
            /\ x.send # "sent" => ReturnsSendErr(up, x)
            /\ x.crit => /\ CallsGrantAccess(up)
                         /\ GrantAccessErr(Selected(up), x.o, x.login) = "login"}

\* What the handler returns to runMessageLoop: nil, an error that
\* isCriticalError lets pass, or one it takes for a connection error
HandlerResult(up, x) ==
    LET route == Route(up)
        sent == IF x.send = "sent" THEN "nil"
                ELSE IF x.send = "failed" THEN "error"
                ELSE "critical"
    IN  IF route \in {"denied", "unknown_command", "no_input_expected",
                      "invalid_duration", "default"} THEN "nil"
        ELSE IF route = "bad_payload" THEN "error"
        ELSE IF ReachesGrant(up) /\ ~CallsGrantAccess(up) THEN "error"
        ELSE IF CallsGrantAccess(up)
                /\ GrantAccessErr(Selected(up), x.o, x.login) # "nil"
             THEN IF x.crit THEN "critical" ELSE "error"
        ELSE IF CallsLockSession(up) /\ LockSessionErr(UsernameOf(up.r), x.o) # "nil"
             THEN "error"
        ELSE IF route = "resetpw" /\ ~x.o.pw THEN "error"
        ELSE sent

\* the message the handler sends
ReplyTo(up, x) ==
    LET route == Route(up) IN
    IF route = "denied" THEN "denied"
    ELSE IF route = "main_menu" THEN "main_menu"
    ELSE IF route = "unknown_command" THEN "unknown_command"
    ELSE IF route = "invalid_duration" THEN "invalid_duration"
    ELSE IF route = "grant_menu" THEN "grant_menu"
    ELSE IF route = "select" THEN
        \* showDurationMenu falls back to the account menu on an empty name
        IF UsernameOf(up.r) = "" THEN "grant_menu" ELSE "duration_menu"
    ELSE IF route = "custom_prompt" THEN "custom_prompt"
    ELSE IF ReachesGrant(up) /\ ~CallsGrantAccess(up) THEN "grant_menu"
    ELSE IF CallsGrantAccess(up) THEN
        IF GrantAccessErr(Selected(up), x.o, x.login) = "nil"
        THEN "access_granted" ELSE "grant_failed"
    ELSE IF route = "lock_menu" THEN "lock_menu"
    ELSE IF CallsLockSession(up) THEN
        IF LockSessionErr(UsernameOf(up.r), x.o) = "nil"
        THEN "locked" ELSE "lock_failed"
    ELSE IF route = "shutdown_menu" THEN "shutdown_menu"
    ELSE IF route \in {"shutdown_now", "schedule"} THEN
        IF ScheduleShutdownErr(ShutdownMinutes(up), x.osOk) = "nil"
        THEN "shutdown_scheduled" ELSE "shutdown_failed"
    ELSE IF route = "cancel_shutdown" THEN
        IF CancelShutdownErr(x.osOk) = "nil"
        THEN "shutdown_cancelled" ELSE "cancel_failed"
    ELSE IF route = "resetpw" THEN
        IF x.o.pw THEN "password_reset" ELSE "reset_failed"
    ELSE IF route \in {"resetpw_all", "resetpw_fallback"} THEN "passwords_reset"
    ELSE "none"

\* userStates after the update: handleGrantAccess and handleDurationSelection
\* write the entry of the chat, handleStateInput deletes that of the sender
UserStatesAfter(up) ==
    LET route == Route(up) IN
    IF route = "select" THEN [userStates EXCEPT ![up.chat] = "grant_duration"]
    ELSE IF route = "custom_prompt" THEN [userStates EXCEPT ![up.chat] = "custom_duration"]
    ELSE IF route = "custom_grant" THEN [userStates EXCEPT ![up.from] = "none"]
    ELSE userStates

\* userData after the update: handleGrantAccess writes the entry of the
\* chat, grantAccess deletes it once GrantAccess has succeeded
UserDataAfter(up, x) ==
    IF Route(up) = "select" THEN [userData EXCEPT ![up.chat] = UsernameOf(up.r)]
    ELSE IF CallsGrantAccess(up) /\ GrantAccessErr(Selected(up), x.o, x.login) = "nil"
    THEN [userData EXCEPT ![up.chat] = "none"]
    ELSE userData

Handled(up) ==
    IF "handled" \in observed
    THEN [route |-> Route(up)]
    ELSE handled

\* history: the branch taken and, where the specification keeps it, what the
\* handler returned to runMessageLoop
HandledAs(up, x) ==
    IF "results" \in observed
    THEN [route |-> Route(up), result |-> HandlerResult(up, x)]
    ELSE Handled(up)

\* handleUpdate and everything it calls
HandleUpdate(up, x) ==
    /\ userStates' = UserStatesAfter(up)
    /\ userData' = UserDataAfter(up, x)
    /\ reply' = ReplyTo(up, x)
    /\ handled' = HandledAs(up, x)
    /\ IF CallsGrantAccess(up)
       THEN GrantAccess(Selected(up), DurationMinutes(up) * Minute, x.o, x.login)
       ELSE IF CallsLockSession(up)
       THEN /\ LockSessionCore(UsernameOf(up.r), x.o)
            /\ UNCHANGED <<clockVars, observed, issued, notifyCalls, notified>>
       ELSE IF ResetsPasswords(up)
       THEN /\ password' = PasswordsAfterReset(up, x)
            /\ UNCHANGED <<childAccounts, activeSessions, osSession, clockVars,
                           histVars>>
       ELSE UNCHANGED <<regVars, clockVars, histVars>>
    /\ IF Route(up) \in {"shutdown_now", "schedule"}
       THEN ScheduleShutdown(ShutdownMinutes(up), x.osOk)
       ELSE IF Route(up) = "cancel_shutdown"
       THEN CancelShutdown(x.osOk)
       ELSE UNCHANGED shutdownVars

\* variant: every error of a handler ends the message loop
ServeUpdate_EveryErrorEnds(U) ==
    /\ botPc = "serving"
    /\ ~cancelled
    /\ \E up \in U : \E x \in UpdateOutcomes(up) :
        /\ HandleUpdate(up, x)
        /\ now' <= MaxServeTime
        /\ IF HandlerResult(up, x) # "nil"
           THEN StartOnError
           ELSE UNCHANGED <<isConnected, reconnectAttempts, botPc, failures>>
    /\ UNCHANGED <<sweepVars, botNil, cancelled, attempts, configVars, serviceVars>>

\* runMessageLoop takes one update from the channel and handles it; an
\* error that isCriticalError takes for a connection error ends the loop
ServeUpdate(U) ==
    /\ botPc = "serving"
    /\ ~cancelled
    /\ \E up \in U : \E x \in UpdateOutcomes(up) :
        /\ HandleUpdate(up, x)
        /\ now' <= MaxServeTime
        /\ IF HandlerResult(up, x) = "critical"
           THEN StartOnError
           ELSE UNCHANGED <<isConnected, reconnectAttempts, botPc, failures>>
    /\ UNCHANGED <<sweepVars, botNil, cancelled, attempts, configVars, serviceVars>>

----------------------------------------------------------------------------
(* The service *)

\* Execute, case svc.Stop, svc.Shutdown: cleanup (cancel the context, stop the
\* bot, clean the Manager up) and return
ServiceCleanup ==
    /\ ~cancelled
    /\ servicePc = "running"
    /\ cancelled' = TRUE
    /\ isConnected' = FALSE
    /\ CleanupCore
    /\ servicePc' = "stopped"
    /\ UNCHANGED <<clockVars, sweepVars, botNil, reconnectAttempts, botPc,
                   observed, issued, notifyCalls, notified>>
    /\ UNCHANGED <<chatVars, shutdownVars, cycleVars, configVars>>

\* runTimeTracker: the tracker returned an error, and the context is cancelled
TrackerFails ==
    /\ ~cancelled
    /\ servicePc = "running"
    /\ cancelled' = TRUE
    /\ UNCHANGED <<regVars, clockVars, sweepVars, botVars, histVars>>
    /\ UNCHANGED <<chatVars, shutdownVars, cycleVars, configVars, serviceVars>>

\* Execute, case <-s.ctx.Done(): cleanup and return
ExecuteOnDone ==
    /\ cancelled
    /\ servicePc = "running"
    /\ isConnected' = FALSE
    /\ CleanupCore
    /\ servicePc' = "stopped"
    /\ UNCHANGED <<clockVars, sweepVars, botNil, reconnectAttempts, botPc,
                   cancelled, observed, issued, notifyCalls, notified>>
    /\ UNCHANGED <<chatVars, shutdownVars, cycleVars, configVars>>

----------------------------------------------------------------------------
(* The environment *)

\* a session of a child account appears, disappears or changes its state
SessionChange ==
    /\ \E a \in childAccounts, s \in WTSStates :
            /\ s # osSession[a]
            /\ osSession' = [osSession EXCEPT ![a] = s]
    /\ UNCHANGED <<childAccounts, activeSessions, password, clockVars, sweepVars,
                   botVars, cancelled, histVars>>
    /\ UNCHANGED <<chatVars, shutdownVars, cycleVars, configVars, serviceVars>>

\* a tick that is due is taken before more time passes, unless no monitor
\* is waiting for it
TimeMayPass == monitorPc # "wait" \/ now < nextTick

\* one second passes
Second ==
    /\ TimeMayPass
    /\ now < MaxTime
    /\ now % SweepInterval < MaxSkew
    /\ now' = now + 1
    /\ UNCHANGED <<regVars, nextTick, sweepVars, botVars, cancelled, histVars>>
    /\ UNCHANGED <<chatVars, shutdownVars, cycleVars, configVars, serviceVars>>

\* time passes up to the next multiple of the sweep interval
ToNextInterval ==
    /\ TimeMayPass
    /\ now + SweepInterval - (now % SweepInterval) <= MaxTime
    /\ now' = now + SweepInterval - (now % SweepInterval)
    /\ UNCHANGED <<regVars, nextTick, sweepVars, botVars, cancelled, histVars>>
    /\ UNCHANGED <<chatVars, shutdownVars, cycleVars, configVars, serviceVars>>

----------------------------------------------------------------------------

\* The state after construction: NewManager, NewBot, NewShutdownManager.
\* started: the service has started its goroutines (Execute, RunDebug).
InitWith(accounts, started, history) ==
    /\ childAccounts = accounts
    /\ activeSessions = [a \in Usernames |-> NoSession]
    /\ password = [a \in Usernames |-> ConfiguredPassword(a)]
    /\ osSession = [a \in Usernames |-> "none"]
    /\ now = 0
    /\ nextTick = SweepInterval
    /\ monitorPc = IF started THEN "wait" ELSE "off"
    /\ expiredSessions = <<>>
    /\ monitorLog = NoLog
    /\ botNil = TRUE
    /\ isConnected = FALSE
    /\ reconnectAttempts = 0
    /\ botPc = IF started THEN "loop" ELSE "off"
    /\ cancelled = FALSE
    /\ observed = history
    /\ lastOp = NoOp
    /\ issued = [a \in Usernames |-> NoSession]
    /\ notifyCalls = [a \in Usernames |-> 0]
    /\ notified = [a \in Usernames |-> 0]
    /\ userStates = [i \in Ids |-> "none"]
    /\ userData = [i \in Ids |-> "none"]
    /\ reply = "none"
    /\ handled = NoUpdate
    /\ scheduledTime = -1
    /\ shutdownCancelled = FALSE
    /\ attempts = 0
    /\ failures = 0
    /\ maxReconnectAttempts \in (IF "cycles" \in history THEN {0, 1} ELSE {0})
    /\ servicePc = IF started THEN "running" ELSE "off"

Init == InitWith({"kid1"}, TRUE, {"issued"})

Next ==
    \/ CallGrantAccess({MinDuration})
    \/ CallLockSession
    \/ CallLockAllSessions
    \/ SweepTick
    \/ SweepLock
    \/ MonitorStop
    \/ ConnectAndRun
    \/ ConnectionLost
    \/ BackoffElapsed
    \/ StartReturns
    \/ ServiceCleanup
    \/ SessionChange
    \/ Second
    \/ ToNextInterval

Spec == Init /\ [][Next]_vars

\* The scenario of one grant of one minute for kid1, left to the sweep
ScenarioGrant ==
    /\ issued["kid1"] = NoSession
    /\ CallGrantAccess({MinDuration})

NextScenario ==
    \/ ScenarioGrant
    \/ SweepTick
    \/ SweepLock
    \/ ConnectAndRun
    \/ ConnectionLost
    \/ BackoffElapsed
    \/ SessionChange
    \/ Second
    \/ ToNextInterval

SpecScenario == Init /\ [][NextScenario]_vars

\* The monitor with two configured accounts, so that one sweep can find two
\* expired Grants, beside the operator's grants and the reconnect loop
InitSweepTwo == InitWith({"kid1", "kid2"}, TRUE, {})

NextSweepTwo ==
    \/ CallGrantAccess({MinDuration})
    \/ SweepTick
    \/ SweepLock
    \/ ConnectAndRun
    \/ ConnectionLost
    \/ BackoffElapsed
    \/ ToNextInterval

SpecSweepTwo == InitSweepTwo /\ [][NextSweepTwo]_vars

\* The reconnect loop of the bot beside the monitor, with the connection
\* cycles counted and with and without a configured maximum of attempts
InitChannel == InitWith({"kid1"}, TRUE, {"cycles"})

NextChannel ==
    \/ ConnectAndRun
    \/ ConnectionLost
    \/ BackoffElapsed
    \/ StartReturns
    \/ ServiceCleanup
    \/ MonitorStop
    \/ SweepTick
    \/ ToNextInterval

SpecChannel == InitChannel /\ [][NextChannel]_vars

\* The three loops of the service up to their end: the handshake of the bot
\* takes time, the tracker may cancel the context, and a loop that can leave
\* on the cancelled context does so (the select of each loop finds
\* ctx.Done() ready from then on, the HTTP client of the bot gives up after
\* its timeout, and the calls of the monitor into the Manager return)
InitTermination == InitWith({"kid1"}, TRUE, {})

NextTermination ==
    \/ HandshakeBegins
    \/ HandshakeEnds
    \/ ConnectionLost
    \/ BackoffElapsed
    \/ StartReturns
    \/ CallGrantAccess({MinDuration})
    \/ SweepTick
    \/ SweepLock
    \/ MonitorStop
    \/ ServiceCleanup
    \/ TrackerFails
    \/ ExecuteOnDone
    \/ ToNextInterval

SpecTermination ==
    /\ InitTermination
    /\ [][NextTermination]_vars
    /\ WF_vars(HandshakeEnds)
    /\ WF_vars(StartReturns)
    /\ WF_vars(SweepLock)
    /\ WF_vars(MonitorStop)
    /\ WF_vars(ExecuteOnDone)

\* The dispatcher of the bot in the grant flow: updates are served while the
\* connection is up, and the connection is lost and made again
InitDispatch == InitWith({"kid1"}, TRUE, {"handled"})

NextDispatch ==
    \/ ConnectAndRun
    \/ ConnectionLost
    \/ BackoffElapsed
    \/ ServeUpdate(GrantFlowUpdates)

SpecDispatch == InitDispatch /\ [][NextDispatch]_vars

\* The dispatcher of the bot before the updates of a user that is not
\* authorized, beside the button presses of the authorized one
NextGuard ==
    \/ ConnectAndRun
    \/ BackoffElapsed
    \/ ServeUpdate(GuardedUpdates)

SpecGuard == InitDispatch /\ [][NextGuard]_vars

\* The dispatcher of the bot before the durations an authorized user sends
\* in the private chat: button payloads duration_<n> and typed texts
DurationWords ==
    {<<"0">>, <<"1">>, <<"-", "5">>, <<"4", "8", "0">>, <<"4", "8", "1">>}

DurationUpdates ==
    {[kind |-> "callback", from |-> 1001, chat |-> 1001, text |-> <<>>,
      p |-> d.p, r |-> d.r] :
        d \in {[p |-> "grant_", r |-> Kid1Word], [p |-> "duration_", r |-> CustomWord]}
               \cup {[p |-> "duration_", r |-> w] : w \in DurationWords}}
    \cup {[kind |-> "message", from |-> 1001, chat |-> 1001, text |-> w,
           p |-> "", r |-> <<>>] : w \in DurationWords}

InitDurations == InitWith({"kid1"}, TRUE, {"lastOp"})

NextDurations ==
    \/ ConnectAndRun
    \/ BackoffElapsed
    \/ ServeUpdate(DurationUpdates)

SpecDurations == InitDurations /\ [][NextDurations]_vars

\* The message loop before what its handlers return: updates of an
\* authorized user in the private chat whose handlers return nil, an error or
\* an error that isCriticalError matches, with the connection cycles counted
ClassifyUpdates ==
    {[kind |-> "callback", from |-> 1001, chat |-> 1001, text |-> <<>>,
      p |-> d.p, r |-> d.r] :
        d \in {[p |-> "main_menu", r |-> <<>>],
                [p |-> "grant_", r |-> Kid1Word],
                [p |-> "duration_", r |-> <<"1">>],
                [p |-> "duration_", r |-> <<"a", "b", "c">>],
                [p |-> "lock_", r |-> Kid1Word]}}

InitClassify == InitWith({"kid1"}, TRUE, {"results", "cycles"})

NextClassify ==
    \/ ConnectAndRun
    \/ ConnectionLost
    \/ BackoffElapsed
    \/ ServeUpdate(ClassifyUpdates)

SpecClassify == InitClassify /\ [][NextClassify]_vars

\* The dispatcher before the reset-password buttons of an authorized user
\* in the private chat, beside a grant: the button of the main menu
\* (resetpw_menu) and those of the menu it is meant to open (resetpw_all,
\* resetpw_kid1)
ResetUpdates ==
    {[kind |-> "callback", from |-> 1001, chat |-> 1001, text |-> <<>>,
      p |-> d.p, r |-> d.r] :
        d \in {[p |-> "main_menu", r |-> <<>>],
                [p |-> "grant_", r |-> Kid1Word],
                [p |-> "duration_", r |-> <<"1">>],
                [p |-> "resetpw_", r |-> MenuWord],
                [p |-> "resetpw_", r |-> AllWord],
                [p |-> "resetpw_", r |-> Kid1Word]}}

InitReset == InitWith({"kid1"}, TRUE, {"handled"})

NextReset ==
    \/ ConnectAndRun
    \/ BackoffElapsed
    \/ ServeUpdate(ResetUpdates)

SpecReset == InitReset /\ [][NextReset]_vars

\* The ShutdownManager alone, called directly, while time passes
InitShutdown == InitWith({"kid1"}, FALSE, {"lastOp"})

NextShutdown ==
    \/ CallScheduleShutdown
    \/ CallShutdownNow
    \/ CallCancelShutdown
    \/ Second
    \/ ToNextInterval

SpecShutdown == InitShutdown /\ [][NextShutdown]_vars

\* The Manager alone, called directly: one configured account
CallCleanup ==
    /\ ~cancelled
    /\ CleanupCore
    /\ UNCHANGED <<clockVars, sweepVars, botVars, cancelled, observed, issued,
                   notifyCalls, notified>>
    /\ UNCHANGED <<chatVars, shutdownVars, cycleVars, configVars, serviceVars>>

InitRegistry == InitWith({"kid1"}, FALSE, {"lastOp"})

NextRegistry ==
    \/ CallGrantAccess(DurationsWide)
    \/ CallLockSession
    \/ CallLockAllSessions
    \/ CallCleanup
    \/ SessionChange
    \/ Second
    \/ ToNextInterval

SpecRegistry == InitRegistry /\ [][NextRegistry]_vars

\* The Manager alone with three configured accounts
InitThree == InitWith({"kid1", "kid2", "kid3"}, FALSE, {})

NextThree ==
    \/ CallGrantAccess({MinDuration})
    \/ CallLockAllSessions
    \/ SessionChange

SpecThree == InitThree /\ [][NextThree]_vars

----------------------------------------------------------------------------
(* Properties of LockSession *)

\* C1: after LockSession(A) has returned, with success or with an error, the
\* secret of account A is its configured secret, whether or not a live
\* session of A was found.
C1_LockRestoresSecret ==
    \A a \in childAccounts :
        (lastOp.op = "LockSession" /\ lastOp.user = a)
            => password[a] = ConfiguredPassword(a)

\* C2: LockSession(A) called twice in a row returns success both times, also
\* when the second call finds no Grant and no live session of A, and leaves
\* no Grant for A.  Stated for a second call none of whose backend calls
\* fails, made right after a first call that returned success.
C2_LockIdempotent ==
    [][\A a \in childAccounts :
        (/\ lastOp.op = "LockSession" /\ lastOp.user = a /\ lastOp.err = "nil"
         /\ AllOk \in LockOutcomes(a)
         /\ LockSessionCore(a, AllOk)
         /\ lastOp'.op = "LockSession")
            => (lastOp'.err = "nil" /\ ~InTable(a)')]_vars

\* C7: after LockSession(A) has returned, the table holds no Grant for A,
\* whatever error the call returned.
C7_LockAlwaysRemoves ==
    \A u \in Usernames :
        (lastOp.op = "LockSession" /\ lastOp.user = u)
            => (~InTable(u) /\ u \notin GetActiveSessions)

\* a LockSession call that found a Grant, failed in the backend and removed
\* the Grant all the same
C7_Witness ==
    /\ lastOp.op = "LockSession" /\ lastOp.user = "kid1"
    /\ lastOp.had
    /\ lastOp.err \in {"enumerate", "logoff", "session_not_found"}
    /\ ~InTable("kid1")

----------------------------------------------------------------------------
(* Properties of the expiry sweep *)

C4_RemovedByNextTick ==
    \A a \in Usernames :
        (InTable(a) /\ monitorPc = "wait" /\ now < nextTick)
            => now < activeSessions[a].StartTime + activeSessions[a].Duration
                        + SweepInterval

\* the sweep's LockSession failed in the backend and the expired Grant is gone
C4_Witness ==
    /\ monitorPc = "wait" /\ now < nextTick
    /\ monitorLog.user = "kid1"
    /\ monitorLog.err \in {"enumerate", "logoff", "session_not_found"}
    /\ issued["kid1"] # NoSession
    /\ now >= issued["kid1"].StartTime + issued["kid1"].Duration
    /\ ~InTable("kid1")

\* the Grants whose expiry instant is not after now
Due == {a \in Usernames : InTable(a)
            /\ activeSessions[a].StartTime + activeSessions[a].Duration <= now}

\* C10: GetExpiredSessions returns a Grant only if its start plus its
\* duration is not after the current time, and returns every such Grant.
C10_ExpiredExactlyDue == GetExpiredSessions = Due

\* the sweep read a Grant at the very instant of its expiry
C10_Witness ==
    /\ monitorPc = "locking" /\ expiredSessions = <<"kid1">>
    /\ InTable("kid1")
    /\ activeSessions["kid1"].StartTime + activeSessions["kid1"].Duration = now

----------------------------------------------------------------------------
(* Properties of LockAllSessions *)

\* the backend calls of a LockAllSessions call that fail
LockAllFailures(enumOk, os) ==
    (IF enumOk THEN 0 ELSE 1)
    + Cardinality({c \in childAccounts \X {"name", "logoff", "pw"} : ~os[c[1]][c[2]]})

\* C5: LockAllSessions called with three active Grants leaves
\* GetActiveSessions empty and each of the three accounts with its
\* configured secret, even if one backend call of the operation fails.
C5_LockAllRestoresAll ==
    [][\A enumOk \in BOOLEAN : \A os \in LockAllOutcomes(enumOk) :
        (/\ Cardinality(childAccounts) = 3
         /\ GetActiveSessions = childAccounts
         /\ LockAllFailures(enumOk, os) <= 1
         /\ LockAllSessionsCore(enumOk, os))
            => /\ GetActiveSessions' = {}
               /\ \A a \in childAccounts : password'[a] = ConfiguredPassword(a)]_vars

----------------------------------------------------------------------------
(* Properties of GrantAccess *)

\* C6: when the change of the secret fails in GrantAccess(A, D), the call
\* returns a failure and the Grant is recorded all the same, with duration D.
C6_RecordedOnSecretFailure ==
    \A a \in childAccounts :
        (lastOp.op = "GrantAccess" /\ lastOp.user = a /\ lastOp.err = "set_password")
            => (a \in GetActiveSessions
                /\ activeSessions[a].Duration = lastOp.d * Minute)

\* C8: for every configured account A and duration D from 1 to 480 minutes,
\* after a successful GrantAccess(A, D) GetActiveSessions holds exactly one
\* Grant for A, and its duration is D.
C8_GrantVisible ==
    \A a \in childAccounts :
        (lastOp.op = "GrantAccess" /\ lastOp.user = a /\ lastOp.err = "nil")
            => /\ Cardinality({u \in GetActiveSessions : u = a}) = 1
               /\ activeSessions[a].Duration = lastOp.d * Minute

\* a grant of the longest duration is in GetActiveSessions
C8_Witness ==
    /\ lastOp.op = "GrantAccess" /\ lastOp.user = "kid1" /\ lastOp.err = "nil"
    /\ lastOp.d = MaxDuration
    /\ "kid1" \in GetActiveSessions
    /\ activeSessions["kid1"].Duration = MaxDuration * Minute

\* C9: a successful GrantAccess(A, D) made while A holds a Grant that has
\* not expired leaves exactly one Grant for A, with duration D and with the
\* instant of this call as its start.
C9_RegrantReplaces ==
    [][(lastOp'.op = "GrantAccess" /\ lastOp'.err = "nil") =>
        \A a \in childAccounts, d \in DurationsWide : \A ol \in GrantOutcomes(a) :
            (/\ InTable(a) /\ ~IsExpired(activeSessions[a], now)
             /\ GrantAccessErr(a, ol[1], ol[2]) = "nil"
             /\ GrantAccess(a, d * Minute, ol[1], ol[2]))
                => activeSessions'[a] =
                    [StartTime |-> now', Duration |-> d * Minute, IsActive |-> TRUE]]_vars

\* a grant of 5 minutes made later on top of an earlier Grant
C9_Witness ==
    /\ lastOp.op = "GrantAccess" /\ lastOp.user = "kid1" /\ lastOp.err = "nil"
    /\ lastOp.had /\ lastOp.d = 5
    /\ now > 0
    /\ activeSessions["kid1"] = [StartTime |-> now, Duration |-> 5 * Minute, IsActive |-> TRUE]

\* C12: GrantAccess for a username that is not a configured account returns
\* an error and changes nothing: the table, every secret and every session
\* are as before, no time was spent polling, and the outcome does not depend
\* on any backend call.
C12_UnknownAccountRejected ==
    [][(lastOp'.op = "GrantAccess" /\ lastOp'.user \notin childAccounts) =>
        \A u \in Callers \ childAccounts, d \in DurationsWide :
        \A o \in BackendOutcomes, login \in LoginOutcomes :
            GrantAccess(u, d * Minute, o, login)
                => /\ lastOp'.err = "account_not_found"
                   /\ activeSessions' = activeSessions
                   /\ password' = password
                   /\ osSession' = osSession
                   /\ now' = now]_vars

\* a grant asked for an unknown username was refused beside a live Grant
C12_Witness ==
    /\ lastOp.op = "GrantAccess" /\ lastOp.user = "nobody"
    /\ lastOp.err = "account_not_found"
    /\ ~InTable("nobody") /\ password["nobody"] # TemporaryPassword
    /\ InTable("kid1") /\ password["kid1"] = TemporaryPassword

----------------------------------------------------------------------------
(* Properties of GetActiveSessions *)

\* C11: GetActiveSessions returns only Grants that are before their expiry
\* instant: a Grant with start + duration <= now is never in its result,
\* also when the sweep has not removed it yet.
C11_ActiveOnlyUnexpired ==
    \A a \in GetActiveSessions :
        now < activeSessions[a].StartTime + activeSessions[a].Duration

----------------------------------------------------------------------------
(* Properties of the reconnect loop *)

\* C13: N connection cycles that ended in a failure (a failed handshake, a
\* lost connection or a critical error), followed by a handshake that
\* succeeds: Start has called connectAndRun exactly N + 1 times; while it
\* waits or is about to try again it has called it exactly N times.
C13_OneHandshakePerCycle ==
    /\ botPc = "serving" => attempts = failures + 1
    /\ botPc \in {"loop", "backoff"} => attempts = failures

\* as many failed cycles as are counted, then a handshake that succeeded
C13_Witness ==
    /\ botPc = "serving" /\ isConnected
    /\ failures = MaxCycles /\ attempts = MaxCycles + 1

\* C14: Start does not return unless the cancellation signal is set, also
\* when a maximum of reconnect attempts is configured and has been reached.
C14_ReturnsOnlyOnCancel == botPc = "returned" => cancelled

\* the configured maximum was reached and Start waits for the next attempt
C14_Witness ==
    /\ maxReconnectAttempts = 1
    /\ reconnectAttempts > maxReconnectAttempts
    /\ botPc = "backoff" /\ ~cancelled

\* C15: once the cancellation signal is set, Start calls connectAndRun no
\* more and does not start serving again; it returns from wherever the
\* signal found it: serving, after a failed handshake, waiting.
C15_NoHandshakeAfterCancel ==
    [][cancelled =>
        /\ attempts' = attempts
        /\ botPc' = "serving" => botPc = "serving"
        /\ botPc = "returned" => botPc' = "returned"]_vars

\* Start has returned after the signal found it waiting after a failure
C15_Witness ==
    /\ cancelled /\ botPc = "returned"
    /\ reconnectAttempts > 0 /\ attempts = failures

----------------------------------------------------------------------------
(* Properties of the dispatcher *)

\* C16: the step and the selected account recorded for every chat are left
\* as they are by every step of a disconnect, backoff and reconnect cycle,
\* so every update is dispatched after the cycle as it would have been
\* before it, a duration for the account selected before it included.
C16_StateSurvivesReconnect ==
    [][(ConnectionLost \/ botPc # "serving") =>
        /\ userStates' = userStates
        /\ userData' = userData
        /\ \A up \in GrantFlowUpdates :
            /\ Route(up)' = Route(up)
            /\ Selected(up)' = Selected(up)
            /\ CallsGrantAccess(up)' = CallsGrantAccess(up)]_vars

\* the connection was made again after a loss, with an account selected
\* and the custom duration asked for in the group chat before the loss
C16_Witness ==
    /\ botPc = "loop" /\ reconnectAttempts > 0 /\ ~botNil
    /\ userData[GroupChat] = "kid1"
    /\ userStates[GroupChat] = "custom_duration"

\* C17: when the update handled comes from a user that is not in
\* AuthorizedUserIDs, a message or a button press, whatever it carries, the
\* denial is sent and nothing else changes: not the table of the Manager,
\* not an account's secret or session, not the ShutdownManager, not the
\* step or the selection of any chat, not the connection.
C17_UnauthorizedOnlyDenied ==
    /\ [](\A up \in GuardedUpdates :
            up.from \notin AuthorizedUserIDs => Route(up) = "denied")
    /\ [][(botPc = "serving" /\ ~ConnectionLost /\ handled'.route = "denied") =>
            /\ reply' = "denied"
            /\ UNCHANGED <<regVars, now, shutdownVars, userStates, userData>>
            /\ UNCHANGED botVars]_vars

\* a denial was sent while a Grant was recorded, a shutdown was scheduled
\* and an account was selected in the group chat
C17_Witness ==
    /\ handled.route = "denied" /\ reply = "denied"
    /\ activeSessions["kid1"] # NoSession
    /\ password["kid1"] = TemporaryPassword
    /\ IsShutdownScheduled
    /\ userData[GroupChat] = "kid1"

\* C18: when an update that reaches grantAccess, a quick duration button or
\* a valid custom input, is handled for a chat that has no entry in userData
\* or an empty selected_user, the account menu is sent again and no Grant
\* is made: the table, the secrets, the sessions and the clock are left as
\* they are, as is userData.
C18_NoSelectionNoGrant ==
    [][(botPc = "serving" /\ handled'.route \in {"quick_grant", "custom_grant"}) =>
        \A up \in GrantFlowUpdates :
            (/\ ReachesGrant(up)
             /\ userData[up.chat] \in {"none", ""}
             /\ handled' = Handled(up)
             /\ \E x \in UpdateOutcomes(up) : HandleUpdate(up, x))
            => /\ reply' = "grant_menu"
               /\ UNCHANGED <<activeSessions, password, osSession, now, userData>>]_vars

\* a valid custom duration was typed with no account selected and the
\* account menu was sent, while a selection made in the other chat stayed
C18_Witness ==
    /\ handled.route = "custom_grant" /\ reply = "grant_menu"
    /\ userData[1001] = "none" /\ userData[GroupChat] = "kid1"
    /\ activeSessions["kid1"] = NoSession

\* C19: when the update handled reached grantAccess and grantAccess called
\* GrantAccess, whatever GrantAccess returned and whether the update was a
\* quick duration button or a typed duration, the chat of the update has
\* no step in userStates and no entry in userData afterwards.
C19_GrantClearsState ==
    [][(botPc = "serving" /\ handled'.route \in {"quick_grant", "custom_grant"}) =>
        \A up \in GrantFlowUpdates :
            (/\ CallsGrantAccess(up)
             /\ handled' = Handled(up)
             /\ \E x \in UpdateOutcomes(up) : HandleUpdate(up, x))
            => /\ userStates'[up.chat] = "none"
               /\ userData'[up.chat] = "none"]_vars

\* C20: a text other than the /start command that arrives from an authorized
\* user whose step is custom_duration goes on to grantAccess when it spells
\* an integer from 1 to 480 and is answered with the invalid-duration
\* message otherwise; the step that sends that message changes neither
\* userStates nor userData nor anything of the Manager; the step that goes on
\* to grantAccess ends in a Grant, a failed Grant or the account menu.
C20_CustomInputValidated ==
    /\ [](\A up \in GrantFlowUpdates :
            (/\ up.kind = "message" /\ up.text # SlashStart
             /\ up.from \in AuthorizedUserIDs
             /\ userStates[up.from] = "custom_duration")
            => Route(up) = IF /\ Atoi(up.text).ok
                              /\ Atoi(up.text).val \in 1..480
                           THEN "custom_grant" ELSE "invalid_duration")
    /\ [][(botPc = "serving" /\ ~ConnectionLost) =>
            /\ handled'.route = "invalid_duration" =>
                    /\ reply' = "invalid_duration"
                    /\ UNCHANGED <<userStates, userData, regVars, now>>
                    /\ UNCHANGED <<shutdownVars, botVars>>
            /\ handled'.route = "custom_grant" =>
                    reply' \in {"access_granted", "grant_failed", "grant_menu"}]_vars

\* an invalid duration was typed in the custom step with an account
\* selected: the step and the selection are still there, no Grant was made
C20_Witness ==
    /\ handled.route = "invalid_duration" /\ reply = "invalid_duration"
    /\ userStates[1001] = "custom_duration" /\ userData[1001] = "kid1"
    /\ activeSessions["kid1"] = NoSession

\* C21: every duration the dispatcher hands to GrantAccess, from a button
\* payload duration_<n> or from a typed text, is between 1 and 480 minutes.
C21_DurationInRange ==
    lastOp.op = "GrantAccess" => lastOp.d \in MinDuration..MaxDuration

\* C22: when the update handled leaves a flow, the text /start or the button
\* main_menu, the chat of the update has no step in userStates and no entry
\* in userData afterwards.
C22_AbandonClearsState ==
    [][(botPc = "serving" /\ ~ConnectionLost /\ handled'.route = "main_menu") =>
        \A up \in GrantFlowUpdates :
            (/\ Route(up) = "main_menu"
             /\ handled' = Handled(up)
             /\ \E x \in UpdateOutcomes(up) : HandleUpdate(up, x))
            => /\ userStates'[up.chat] = "none"
               /\ userData'[up.chat] = "none"]_vars

----------------------------------------------------------------------------
(* Properties of every removal path *)

\* C23: in every state, a configured account that has no Grant in the table
\* carries its configured secret, not the temporary one; after LockSession,
\* LockAllSessions and Cleanup, whatever their backend calls returned.
C23_NoGrantNoTemporarySecret ==
    \A a \in childAccounts :
        activeSessions[a] = NoSession => password[a] = ConfiguredPassword(a)

----------------------------------------------------------------------------
(* Properties of the ShutdownManager *)

\* C24: when ScheduleShutdown(d) returns nil, whatever was scheduled or
\* cancelled before, the scheduled time is the instant of this call plus d
\* minutes and IsShutdownScheduled is true.
C24_ScheduleOverwrites ==
    [][(lastOp'.op = "ScheduleShutdown" /\ lastOp'.err = "nil" /\ CallScheduleShutdown) =>
        /\ scheduledTime' = now + lastOp'.d * Minute
        /\ IsShutdownScheduled']_vars

\* a schedule made while another one was pending, for a different instant
C24_Witness ==
    /\ lastOp.op = "ScheduleShutdown" /\ lastOp.err = "nil" /\ lastOp.had
    /\ lastOp.d = 1 /\ now = SweepInterval
    /\ scheduledTime = now + Minute
    /\ IsShutdownScheduled

\* C25: CancelShutdown called while nothing is scheduled returns nil and
\* leaves nothing scheduled; CancelShutdown called right after CancelShutdown
\* leaves the scheduled time and the cancelled flag as the first call left
\* them.
C25_CancelIdempotent ==
    [][(lastOp'.op = "CancelShutdown" /\ CallCancelShutdown) =>
        /\ ~IsShutdownScheduled =>
                (lastOp'.err = "nil" /\ ~IsShutdownScheduled')
        /\ lastOp.op = "CancelShutdown" => UNCHANGED shutdownVars]_vars

----------------------------------------------------------------------------
(* Properties of the service's loops *)

\* C26: a step in which the channel fails (a handshake that fails, a
\* connection that is lost, a critical error) leaves the context of the
\* service and the monitor as they are; Start and the monitor end only once
\* the context is cancelled; and whatever state the channel is in, a monitor
\* whose tick is due takes it and a monitor with expired sessions in hand
\* locks the next one.
C26_FailureNeverStopsService ==
    /\ [][reconnectAttempts' > reconnectAttempts =>
            UNCHANGED <<cancelled, sweepVars, nextTick>>]_vars
    /\ [](monitorPc = "done" \/ botPc = "returned" => cancelled)
    /\ [](~isConnected =>
            /\ (monitorPc = "wait" /\ now >= nextTick) => ENABLED SweepTick
            /\ monitorPc = "locking" => ENABLED SweepLock)

\* the monitor is locking an expired Grant while the channel, after a second
\* failure in a row, waits to connect again
C26_Witness ==
    /\ ~isConnected /\ botPc = "backoff" /\ reconnectAttempts = MaxReconnect
    /\ ~cancelled
    /\ monitorPc = "locking" /\ expiredSessions = <<"kid1">>
    /\ InTable("kid1")

\* C27: once the context is cancelled, the loop of the bot returns, in
\* whatever state the cancellation found it (handshake, serving, backoff),
\* the monitor ends, and the control loop of the service has run cleanup and
\* returned
C27_AllLoopsStop ==
    cancelled ~> (botPc = "returned" /\ monitorPc = "done" /\ servicePc = "stopped")

\* after a handshake of the bot, the loop of the bot has returned, the
\* monitor has ended and cleanup has run
C27_Witness ==
    /\ botPc = "returned"
    /\ monitorPc = "done"
    /\ servicePc = "stopped"
    /\ ~botNil
    /\ reconnectAttempts > 0

----------------------------------------------------------------------------
(* Properties of the sweep beside a silent channel *)

\* C28: when the monitor has locked an expired Grant and the notification
\* was not sent, because the channel is disconnected or the send failed, the
\* Grant is out of the table and the monitor goes on as after a notification
\* that was sent; NotifySessionExpired is not called a second time for that
\* Grant; and a tick that is due after it is processed.
C28_SweepToleratesSilentChannel ==
    /\ [][(/\ monitorPc = "locking"
           /\ expiredSessions' = Tail(expiredSessions)
           /\ notifyCalls'[Head(expiredSessions)] = notifyCalls[Head(expiredSessions)] + 1
           /\ notified' = notified)
            => /\ activeSessions'[Head(expiredSessions)] = NoSession
               /\ monitorPc' = (IF expiredSessions' = <<>> THEN "wait" ELSE "locking")
               /\ UNCHANGED <<clockVars, cancelled>>]_vars
    /\ [](\A a \in Usernames : notifyCalls[a] <= 1)
    /\ []((/\ \E a \in Usernames : notifyCalls[a] > notified[a]
           /\ monitorPc = "wait" /\ now >= nextTick) => ENABLED SweepTick)

\* kid1's Grant expired and was locked by the monitor, no notification was
\* sent, and the tick after that one was processed
C28_Witness ==
    /\ notifyCalls["kid1"] = 1 /\ notified["kid1"] = 0
    /\ ~InTable("kid1")
    /\ monitorPc = "wait"
    /\ nextTick = 4 * SweepInterval
    /\ ~cancelled

----------------------------------------------------------------------------
(* Properties of the message loop *)

\* C29: when a handler returns an error that isCriticalError does not match
\* (or nil), the loop stays where it is: same connection, same bot, no
\* handshake, reconnectAttempts and the count of failed cycles unchanged.
\* When the error matches, the loop ends: the channel is marked disconnected,
\* the failure is counted and Start waits before a handshake.  The loop is
\* left in no other way (the closed update stream is the other cause), and
\* while Start waits, reconnectAttempts is positive, so that connectAndRun
\* will make a new bot.
C29_ErrorClassification ==
    /\ [][(botPc = "serving" /\ "result" \in DOMAIN handled' /\ handled' # handled) =>
            IF handled'.result = "critical"
            THEN /\ isConnected' = FALSE
                 /\ botPc' = "backoff"
                 /\ reconnectAttempts' = reconnectAttempts + 1
                 /\ failures' = failures + 1
                 /\ UNCHANGED <<botNil, attempts>>
            ELSE UNCHANGED <<botVars, attempts, failures>>]_vars
    /\ [][(botPc = "serving" /\ botPc' # "serving") =>
            /\ isConnected' = FALSE
            /\ botPc' = "backoff"
            /\ failures' = failures + 1]_vars
    /\ [](botPc = "backoff" => (~isConnected /\ reconnectAttempts > 0))

\* on the connection made after a lost one, a handler returned an error
\* that was skipped: the loop is serving, connected, nothing counted
C29_Witness ==
    /\ "result" \in DOMAIN handled
    /\ handled.result = "error"
    /\ botPc = "serving" /\ isConnected
    /\ reconnectAttempts = 0
    /\ attempts = 2 /\ failures = 1

\* a handler returned an error that isCriticalError matches: the loop has
\* ended and Start waits
C29_WitnessCritical ==
    /\ "result" \in DOMAIN handled
    /\ handled.result = "critical"
    /\ botPc = "backoff" /\ ~isConnected
    /\ reconnectAttempts = 1
    /\ attempts = 1 /\ failures = 1

\* C30: a handshake that succeeds leaves isConnected true and
\* reconnectAttempts 0, whatever reconnectAttempts was, and only then is the
\* message loop entered; the message loop runs with reconnectAttempts 0; and
\* in every state with isConnected true, reconnectAttempts is 0.
C30_HandshakeResets ==
    /\ [][(botPc # "serving" /\ botPc' = "serving") =>
            /\ botPc = "loop"
            /\ attempts' = attempts + 1
            /\ isConnected' /\ reconnectAttempts' = 0]_vars
    /\ [](botPc = "serving" => reconnectAttempts = 0)
    /\ [](isConnected => reconnectAttempts = 0)

\* the third handshake succeeded after two cycles had failed
C30_Witness ==
    /\ botPc = "serving" /\ isConnected
    /\ reconnectAttempts = 0
    /\ attempts = 3 /\ failures = 2

----------------------------------------------------------------------------
(* Properties of the table and of the sweep beside the operator *)

\* C31: every entry of the table has IsActive set, after whatever calls of
\* GrantAccess, LockSession, LockAllSessions and Cleanup, failed or not.
C31_TableHoldsOnlyActive ==
    \A a \in Usernames : InTable(a) => activeSessions[a].IsActive

\* a Grant of kid1 in the table after a LockSession call that failed for
\* another name
C31_Witness ==
    /\ InTable("kid1") /\ activeSessions["kid1"].IsActive
    /\ lastOp.op = "LockSession" /\ lastOp.err # "nil"

\* C32: a step of the sweep (LockSession for the account at the head of the
\* list GetExpiredSessions returned) removes no Grant that is before its
\* expiry instant, whatever the operator called between the two steps.
C32_SweepSparesUnexpired ==
    [][(/\ monitorPc = "locking"
        /\ expiredSessions' = Tail(expiredSessions)
        /\ InTable(Head(expiredSessions))
        /\ ~IsExpired(activeSessions[Head(expiredSessions)], now))
            => activeSessions'[Head(expiredSessions)]
                    = activeSessions[Head(expiredSessions)]]_vars

\* C33: NotifySessionExpired is called at most once for a Grant.  The step
\* of the sweep that passes an account to LockSession leaves no entry for it
\* in the table, whether LockSession returned an error or not, and the
\* accounts a tick gets from GetExpiredSessions hold Grants for which
\* NotifySessionExpired was not called yet.
C33_NotifiedOncePerGrant ==
    /\ [](\A a \in Usernames : notifyCalls[a] <= 1 /\ notified[a] <= notifyCalls[a])
    /\ [][(monitorPc = "locking" /\ expiredSessions' = Tail(expiredSessions))
            => activeSessions'[Head(expiredSessions)] = NoSession]_vars
    /\ [][(monitorPc = "wait" /\ monitorPc' = "locking")
            => \A i \in 1..Len(expiredSessions') :
                    /\ InTable(expiredSessions'[i])
                    /\ notifyCalls[expiredSessions'[i]] = 0]_vars

\* kid1's expired Grant was passed to a LockSession that failed; it is out
\* of the table, no notification was attempted, and the tick after that
\* sweep was processed
C33_Witness ==
    /\ monitorLog.user = "kid1" /\ monitorLog.err # "nil"
    /\ ~InTable("kid1")
    /\ notifyCalls["kid1"] = 0
    /\ monitorPc = "wait"
    /\ nextTick = 4 * SweepInterval

----------------------------------------------------------------------------
(* Properties of the reset-password buttons *)

\* C35: the button of the main menu with the payload resetpw_menu shows the
\* menu of the accounts whose password can be reset, and changes the secret
\* of no account.
C35_ResetMenuOnlyShowsMenu ==
    [][(botPc = "serving" /\ ~ConnectionLost /\ handled'.route = "resetpw_fallback")
        => (reply' = "resetpw_menu" /\ password' = password)]_vars

----------------------------------------------------------------------------
(* Properties of the conversation step across chats *)

\* C36: while the loop serves, a text message of an authorized user that
\* holds an integer from MinDuration to MaxDuration, arriving in a chat for
\* which the step 'custom duration' and a selected account are recorded, is
\* taken as the custom duration and reaches GrantAccess for that account,
\* in the private chat as in a chat whose id is not that of the user.
C36_StepOfChatConsulted ==
    botPc = "serving" =>
        \A up \in GrantFlowUpdates :
            (/\ up.kind = "message"
             /\ IsAuthorized(up.from)
             /\ ValidCustomDuration(up.text)
             /\ userStates[up.chat] = "custom_duration"
             /\ userData[up.chat] \in childAccounts)
                => (Route(up) = "custom_grant" /\ CallsGrantAccess(up))

----------------------------------------------------------------------------
(* Properties of the ShutdownManager's two fields *)

\* C37: IsShutdownScheduled() is true exactly when GetScheduledTime() is
\* not nil, after whatever calls of ScheduleShutdown, ShutdownNow and
\* CancelShutdown, failed or not.
C37_ScheduledIffPresent ==
    IsShutdownScheduled <=> scheduledTime # -1

\* a schedule that was pending has been cancelled: no instant, not scheduled
C37_Witness ==
    /\ lastOp.op = "CancelShutdown" /\ lastOp.err = "nil" /\ lastOp.had
    /\ scheduledTime = -1 /\ shutdownCancelled
    /\ ~IsShutdownScheduled

\* C38: ScheduleShutdown with a negative delay, ScheduleShutdown and
\* ShutdownNow whose InitiateSystemShutdownEx fails, and CancelShutdown
\* whose call fails, each return an error and leave scheduledTime and
\* cancelled as they were.
C38_FailureLeavesSchedule ==
    /\ [](/\ \A mins \in Delays, osOk \in BOOLEAN :
                (mins < 0 \/ ~osOk) => ScheduleShutdownErr(mins, osOk) # "nil"
          /\ CancelShutdownErr(FALSE) # "nil")
    /\ [][(/\ lastOp'.op \in {"ScheduleShutdown", "ShutdownNow", "CancelShutdown"}
           /\ lastOp'.err # "nil"
           /\ CallScheduleShutdown \/ CallShutdownNow \/ CallCancelShutdown)
            => UNCHANGED shutdownVars]_vars

\* a CancelShutdown that failed while a shutdown was scheduled: the
\* schedule of one minute made at 30 s is still there
C38_Witness ==
    /\ lastOp.op = "CancelShutdown" /\ lastOp.err # "nil" /\ lastOp.had
    /\ scheduledTime = SweepInterval + Minute /\ ~shutdownCancelled
    /\ IsShutdownScheduled


====
